---- MODULE Spec2Model ----
(***************************************************************************)
(* Model of the bixss-ca backend: the role / membership access checks      *)
(* (middleware/rbac.js, models/User.js, models/Company.js), the company    *)
(* and admin controllers that mutate the membership mirrors, and the       *)
(* analysis ingestion consumer with the document and analysis collections. *)
(* Ids are strings; ObjectId.toString() is injective on ids, so string     *)
(* equality is the comparison the code performs.                           *)
(***************************************************************************)
EXTENDS Integers, Sequences, FiniteSets, TLC

VARIABLES users, companies, allocated, analyses, documents, handlers, clock, last,
          subscriber, requests

vars == <<users, companies, allocated, analyses, documents, handlers, clock, last,
          subscriber, requests>>

\* What the last completed request or consumer step was (history only).
Done(op, user, cids, aid, res) ==
  [op |-> op, user |-> user, cids |-> cids, aid |-> aid, res |-> res]

(***************************************************************************)
(* Universe and bounds                                                     *)
(***************************************************************************)
NULL == "null"

UserIds == {"admin", "john", "michael", "ca", "jane"}

CompanyIds == {"c1", "c2"}

\* A CA's invitedCompanies array is never de-duplicated by assignCAToCompanies
\* (a Set of ObjectId objects and strings); the model stops growing it here.
MaxInvited == 2

\* Date.now() values the model lets the clock reach.
MaxClock == 1

SeqToSet(s) == {s[i] : i \in 1..Len(s)}

\* req.body.companyIds of the admin routes: non-empty arrays of company ids
CompanyIdLists ==
  {<<c>> : c \in CompanyIds}
    \cup {<<p[1], p[2]>> : p \in {q \in CompanyIds \X CompanyIds : q[1] # q[2]}}

RECURSIVE Filter_Inverted(_, _)
\* filter with the predicate's negation lost
Filter_Inverted(s, Drop) ==
  IF s = <<>> THEN <<>>
  ELSE (IF Head(s) \in Drop THEN <<Head(s)>> ELSE <<>>) \o Filter_Inverted(Tail(s), Drop)

RECURSIVE Filter(_, _)
\* Array.prototype.filter keeping the elements that are not in Drop
Filter(s, Drop) ==
  IF s = <<>> THEN <<>>
  ELSE (IF Head(s) \in Drop THEN <<>> ELSE <<Head(s)>>) \o Filter(Tail(s), Drop)

(***************************************************************************)
(* models/User.js                                                          *)
(***************************************************************************)
CompanyRoles == {"COMPANY_ADMIN", "COMPANY_USER"}

\* userSchema.methods.hasCompanyAccess without its SUPER_ADMIN shortcut
User_hasCompanyAccess_NoSuper(user, companyId) ==
  IF user.role = "CA" THEN
    \E i \in 1..Len(user.invitedCompanies) : user.invitedCompanies[i] = companyId
  ELSE IF user.role \in CompanyRoles THEN
    user.company # NULL /\ user.company = companyId
  ELSE FALSE

\* userSchema.methods.hasCompanyAccess; the truthiness of the JS result
User_hasCompanyAccess(user, companyId) ==
  IF user.role = "SUPER_ADMIN" THEN TRUE
  ELSE IF user.role = "CA" THEN
    \E i \in 1..Len(user.invitedCompanies) : user.invitedCompanies[i] = companyId
  ELSE IF user.role \in CompanyRoles THEN
    user.company # NULL /\ user.company = companyId
  ELSE FALSE

(***************************************************************************)
(* models/Company.js                                                       *)
(***************************************************************************)
InvitedCASet(company) == {company.invitedCAs[i].ca : i \in 1..Len(company.invitedCAs)}

Company_isCompanyAdmin_NoRep(company, userId) ==
  userId \in company.companyAdmins

Company_isCompanyAdmin(company, userId) ==
  company.representative = userId \/ userId \in company.companyAdmins

Company_inviteCA(company, caId, invitedByUserId) ==
  LET alreadyInvited == \E i \in 1..Len(company.invitedCAs) : company.invitedCAs[i].ca = caId
  IN IF ~alreadyInvited
     THEN [company EXCEPT !.invitedCAs =
             Append(@, [ca |-> caId, invitedBy |-> invitedByUserId, invitedAt |-> clock])]
     ELSE company

RECURSIVE DropInvites(_, _)
DropInvites(invites, caId) ==
  IF invites = <<>> THEN <<>>
  ELSE (IF Head(invites).ca # caId THEN <<Head(invites)>> ELSE <<>>)
       \o DropInvites(Tail(invites), caId)

Company_removeCA(company, caId) ==
  [company EXCEPT !.invitedCAs = DropInvites(@, caId)]

(***************************************************************************)
(* middleware/rbac.js: each middleware yields "next" or the HTTP status    *)
(***************************************************************************)
isSuperAdmin(u) == IF users[u].role # "SUPER_ADMIN" THEN "403" ELSE "next"

hasCompanyAccess(u, companyId) ==
  IF users[u].role = "SUPER_ADMIN" THEN "next"
  ELSE IF User_hasCompanyAccess(users[u], companyId) THEN "next"
  ELSE "403"

isCompanyAdmin(u, companyId) ==
  IF users[u].role = "SUPER_ADMIN" THEN "next"
  ELSE IF users[u].role = "COMPANY_ADMIN"
          /\ users[u].company # NULL /\ users[u].company = companyId THEN "next"
  ELSE IF companyId \notin DOMAIN companies THEN "404"
  ELSE IF Company_isCompanyAdmin(companies[companyId], u) THEN "next"
  ELSE "403"

caHasCompanyAccess_Mirror(u, companyId) ==
  IF users[u].role # "CA" THEN "403"
  ELSE IF companyId \notin DOMAIN companies THEN "404"
  ELSE IF companyId \notin SeqToSet(users[u].invitedCompanies) THEN "403"
  ELSE "next"

caHasCompanyAccess(u, companyId) ==
  IF users[u].role # "CA" THEN "403"
  ELSE IF companyId \notin DOMAIN companies THEN "404"
  ELSE LET isInvited == \E i \in 1..Len(companies[companyId].invitedCAs) :
                           companies[companyId].invitedCAs[i].ca = u
       IN IF ~isInvited THEN "403" ELSE "next"

(***************************************************************************)
(* Message bus payloads (REDIS_QUEUE_ARCHITECTURE.md, analysisConsumer.js) *)
(***************************************************************************)
HandlerIds == {"h1", "h2"}

DocIds == {"D1", "D2"}

\* ids Document.create hands out, in order; "D2" is never uploaded
DocOrder == <<"D1">>

AnalysisIds == {"A1", "A2"}

\* uuidv4() results storeAnalysis can draw
UuidPool == {"U1"}

\* A JSON number is an integer count of units of 0.00005 (1.0 is 20000 units);
\* a value that is null or absent is <<>>, a number n is <<n>>.
Num(n) == <<n * 20000>>

\* one entry of calculated_metrics: {value, current_year: {value}, available}
Metric(value, current_year, available) ==
  [value |-> value, current_year |-> current_year, available |-> available]

\* the values a metric takes in the payloads below, by payload name
MetricValues ==
  [Vm100 |-> Num(-100), Vm94 |-> Num(-94), V0 |-> <<0>>, Vtiny |-> <<1>>, Veps |-> <<2>>,
   V94 |-> Num(94), V95 |-> Num(95), V100 |-> Num(100), V104 |-> Num(104),
   V105 |-> Num(105), V108 |-> Num(108)]

\* a metric entry that is no object (null, a number, a character of a string):
\* each of its ?.value, ?.current_year?.value and ?.available is undefined
Primitive == Metric(<<>>, <<>>, TRUE)

\* analysis_data objects with two metrics; SNull: current_ratio has a null
\* value and debt_ratio is missing; SYear: current_ratio has its value under
\* current_year and debt_ratio is flagged unavailable though it has a value;
\* SText: calculated_metrics is the string "ab", whose entries are its
\* characters under the keys "0" and "1"
SeriesPayloads ==
  [S100 |-> [financial_health_analysis |-> NULL,
             calculated_metrics |-> [current_ratio |-> Metric(Num(100), <<>>, TRUE),
                                     debt_ratio    |-> Metric(Num(100), <<>>, TRUE)]],
   SUpDown |-> [financial_health_analysis |-> NULL,
             calculated_metrics |-> [current_ratio |-> Metric(Num(108), <<>>, TRUE),
                                     debt_ratio    |-> Metric(Num(94), <<>>, TRUE)]],
   SUp  |-> [financial_health_analysis |-> NULL,
             calculated_metrics |-> [current_ratio |-> Metric(Num(108), <<>>, TRUE),
                                     debt_ratio    |-> Metric(Num(108), <<>>, TRUE)]],
   SDown |-> [financial_health_analysis |-> NULL,
             calculated_metrics |-> [current_ratio |-> Metric(Num(94), <<>>, TRUE),
                                     debt_ratio    |-> Metric(Num(94), <<>>, TRUE)]],
   SNull |-> [financial_health_analysis |-> NULL,
              calculated_metrics |-> [current_ratio |-> Metric(<<>>, <<>>, TRUE)]],
   SYear |-> [financial_health_analysis |-> NULL,
              calculated_metrics |-> [current_ratio |-> Metric(<<>>, Num(108), TRUE),
                                      debt_ratio    |-> Metric(Num(108), <<>>, FALSE)]],
   SText |-> [financial_health_analysis |-> NULL,
              calculated_metrics |-> [k \in {"0", "1"} |-> Primitive]]]

\* analysis_data objects: the keys the consumer and the comparison look at
Payloads ==
  [P1 |-> [financial_health_analysis |-> "H1",
           calculated_metrics |-> [current_ratio |-> Metric(Num(100), <<>>, TRUE)]],
   P2 |-> [financial_health_analysis |-> NULL, calculated_metrics |-> <<>>]]
  @@ [n \in DOMAIN MetricValues |->
        [financial_health_analysis |-> NULL,
         calculated_metrics |-> [current_ratio |-> Metric(MetricValues[n], <<>>, TRUE)]]]
  @@ SeriesPayloads

\* A message: parses tells whether JSON.parse succeeds; an absent key is NULL,
\* an absent or empty document_ids is <<>>, an absent or zero metadata count is 0
\* (the code treats each pair alike: `x && x.length > 0`, `a || b`).
Msg(parses, aid, data, co, docs, cnt, pages) ==
  [parses |-> parses, analysis_id |-> aid, analysis_data |-> data, company_id |-> co,
   job_id |-> "J1", document_ids |-> docs,
   document_count |-> cnt, total_pages_processed |-> pages]

Messages ==
  [mA      |-> Msg(TRUE, "A1", "P1", "c1", <<"D1", "D2">>, 0, 7),
   mB      |-> Msg(TRUE, "A1", "P2", "c1", <<"D1">>, 3, 0),
   mC      |-> Msg(TRUE, "A2", "P1", "c1", <<>>, 0, 0),
   mNoId   |-> Msg(TRUE, NULL, "P1", "c1", <<"D1">>, 0, 0),
   mNoData |-> Msg(TRUE, "A2", NULL, "c1", <<"D1">>, 0, 0),
   mBadCo  |-> Msg(TRUE, "A2", "P2", "not-an-id", <<"D1">>, 0, 0),
   mJunk   |-> Msg(FALSE, NULL, NULL, NULL, <<>>, 0, 0)]
  @@ [mNoJob |-> [Msg(TRUE, "A1", "P2", "c1", <<>>, 0, 0) EXCEPT !.job_id = NULL]]

MsgNames == DOMAIN Messages

\* the requests to POST /:companyId/invite-ca that can be in flight together
RequestIds == {"r1", "r2"}

NoRequest == [pc |-> "idle", actor |-> NULL, company |-> NULL, ca |-> NULL, listed |-> FALSE]

\* strings that cast to an ObjectId
IsObjectId(x) == x \in CompanyIds

Idle == [pc |-> "idle", msg |-> NULL, documents |-> <<>>]

\* a handler whose promise was rejected: server.js exits the process on it
Rejected == [pc |-> "rejected", msg |-> NULL, documents |-> <<>>]

\* process.on('unhandledRejection') has not fired
Alive == \A g \in HandlerIds : handlers[g].pc # "rejected"

\* the catch block with the error thrown on to the subscription callback
Caught_Rethrown == Rejected

\* the catch block of handleAnalysisMessage: logs, and the handler returns
Caught == Idle

(***************************************************************************)
(* services/analysisConsumer.js: handleAnalysisMessage, one action per     *)
(* stretch of code between two awaits                                      *)
(***************************************************************************)
\* the "Validate required fields" block
Validate_NoCheck(data) == TRUE

Validate(data) == data.analysis_id # NULL /\ data.analysis_data # NULL

RECURSIVE FindDocs_Trusting(_, _)
\* a snapshot entry for every requested id, found or not
FindDocs_Trusting(order, ids) ==
  IF order = <<>> THEN <<>>
  ELSE (IF Head(order) \in ids
        THEN <<[documentId |-> Head(order), filename |-> "report.pdf", fileType |-> "pdf"]>>
        ELSE <<>>) \o FindDocs_Trusting(Tail(order), ids)

RECURSIVE FindDocs(_, _)
\* Document.find({_id: {$in: ids}}) mapped to {documentId, filename, fileType}
FindDocs(order, ids) ==
  IF order = <<>> THEN <<>>
  ELSE (IF Head(order) \in ids /\ Head(order) \in DOMAIN documents
        THEN <<[documentId |-> Head(order),
                filename   |-> documents[Head(order)].filename,
                fileType   |-> documents[Head(order)].fileType]>>
        ELSE <<>>) \o FindDocs(Tail(order), ids)

\* the update document handed to findOneAndUpdate
UpdateOf(data, docs) ==
  [company             |-> data.company_id,
   jobId               |-> data.job_id,
   documents           |-> docs,
   documentCount       |-> IF data.document_count # 0 THEN data.document_count ELSE Len(docs),
   totalPagesProcessed |-> data.total_pages_processed,
   consolidatedData    |-> data.analysis_data,
   healthAnalysis      |-> IF Payloads[data.analysis_data].financial_health_analysis # NULL
                           THEN Payloads[data.analysis_data].financial_health_analysis
                           ELSE "{}",
   status              |-> "completed"]

OwnedFields == DOMAIN UpdateOf(Messages["mA"], <<>>)

Owned(rec) == [f \in OwnedFields |-> rec[f]]

\* a key of the update whose value is undefined (job_id absent from the
\* message) is not sent to the store: on an existing record the field stays
Omitted(f, exists, upd) == exists /\ f = "jobId" /\ upd[f] = NULL

\* the update applied with the snapshot pushed onto the one already stored
Upserted_Appending(old, exists, upd) ==
  [f \in OwnedFields \cup {"uploadedBy", "createdAt", "updatedAt"} |->
     IF f = "documents" THEN (IF exists THEN old.documents \o upd.documents ELSE upd.documents)
     ELSE IF f \in OwnedFields THEN (IF Omitted(f, exists, upd) THEN old[f] ELSE upd[f])
     ELSE IF f = "uploadedBy" THEN (IF exists THEN old.uploadedBy ELSE NULL)
     ELSE IF f = "createdAt" THEN (IF exists THEN old.createdAt ELSE clock)
     ELSE clock]

\* findOneAndUpdate(..., {upsert: true}) with the schema's timestamps: $set of
\* the update and updatedAt, $setOnInsert of createdAt and the defaults
Upserted_ResetCreated(old, exists, upd) ==
  [f \in OwnedFields \cup {"uploadedBy", "createdAt", "updatedAt"} |->
     IF f \in OwnedFields THEN (IF Omitted(f, exists, upd) THEN old[f] ELSE upd[f])
     ELSE IF f = "uploadedBy" THEN (IF exists THEN old.uploadedBy ELSE NULL)
     ELSE clock]

Upserted(old, exists, upd) ==
  [f \in OwnedFields \cup {"uploadedBy", "createdAt", "updatedAt"} |->
     IF f \in OwnedFields THEN (IF Omitted(f, exists, upd) THEN old[f] ELSE upd[f])
     ELSE IF f = "uploadedBy" THEN (IF exists THEN old.uploadedBy ELSE NULL)
     ELSE IF f = "createdAt" THEN (IF exists THEN old.createdAt ELSE clock)
     ELSE clock]

\* message arrival: JSON.parse and validation, up to the first await
Receive(h, m) ==
  /\ Alive
  /\ subscriber = "subscribed"
  /\ handlers[h].pc = "idle"
  /\ LET data == Messages[m] IN
       IF ~data.parses \/ ~Validate(data)
       THEN /\ handlers' = [handlers EXCEPT ![h] = Caught]
            /\ last' = Done("receive", m, {}, data.analysis_id, "dropped")
       ELSE /\ handlers' = [handlers EXCEPT ![h] =
                 [pc |-> IF Len(data.document_ids) > 0 THEN "find" ELSE "upsert",
                  msg |-> m, documents |-> <<>>]]
            /\ last' = Done("receive", m, {}, data.analysis_id, "accepted")
  /\ UNCHANGED <<users, companies, allocated, analyses, documents, clock, subscriber, requests>>

FindDocuments(h) ==
  /\ handlers[h].pc = "find"
  /\ LET data == Messages[handlers[h].msg] IN
       /\ handlers' = [handlers EXCEPT ![h].pc = "upsert",
                         ![h].documents = FindDocs(DocOrder, SeqToSet(data.document_ids))]
       /\ last' = Done("find", handlers[h].msg, {}, data.analysis_id, "ok")
  /\ UNCHANGED <<users, companies, allocated, analyses, documents, clock, subscriber, requests>>

Upsert(h) ==
  /\ handlers[h].pc = "upsert"
  /\ LET m    == handlers[h].msg
         data == Messages[m]
         aid  == data.analysis_id
         upd  == UpdateOf(data, handlers[h].documents)
         exists == aid \in DOMAIN analyses
         old    == IF exists THEN analyses[aid] ELSE upd
     IN
       IF ~IsObjectId(data.company_id)
       THEN \* CastError, caught by the handler's catch
            /\ analyses' = analyses
            /\ handlers' = [handlers EXCEPT ![h] = Caught]
            /\ last' = Done("upsert", m, {}, aid, "error")
       ELSE /\ analyses' = [a \in DOMAIN analyses \cup {aid} |->
                              IF a = aid THEN Upserted(old, exists, upd) ELSE analyses[a]]
            /\ handlers' = [handlers EXCEPT ![h] =
                 IF Len(data.document_ids) > 0 THEN [@ EXCEPT !.pc = "sync"] ELSE Idle]
            /\ last' = Done("upsert", m, {}, aid,
                            IF ~exists THEN "inserted"
                            ELSE IF Owned(old) = upd THEN "replayed" ELSE "overwritten")
  /\ UNCHANGED <<users, companies, allocated, documents, clock, subscriber, requests>>

\* the upsert loses the race for the unique analysisId: another handler, still
\* in flight, has inserted the record since this one issued its
\* findOneAndUpdate, which fails with a duplicate key error (caught)
UpsertDuplicateKey(h) ==
  /\ handlers[h].pc = "upsert"
  /\ LET aid == Messages[handlers[h].msg].analysis_id IN
       /\ aid \in DOMAIN analyses
       /\ \E g \in HandlerIds \ {h} :
            /\ handlers[g].pc = "sync"
            /\ Messages[handlers[g].msg].analysis_id = aid
       /\ last' = Done("upsert", handlers[h].msg, {}, aid, "error")
  /\ handlers' = [handlers EXCEPT ![h] = Caught]
  /\ UNCHANGED <<users, companies, allocated, analyses, documents, clock, subscriber, requests>>

\* a status update that also clears the CA invitations of the companies
SyncDocuments_ClearsInvites(h) ==
  /\ handlers[h].pc = "sync"
  /\ LET data == Messages[handlers[h].msg] IN
       /\ documents' = [d \in DOMAIN documents |->
                          IF d \in SeqToSet(data.document_ids)
                          THEN [documents[d] EXCEPT !.status = "analyzed",
                                                     !.analysisId = data.analysis_id]
                          ELSE documents[d]]
       /\ last' = Done("sync", handlers[h].msg, {}, data.analysis_id, "ok")
  /\ handlers' = [handlers EXCEPT ![h] = Idle]
  /\ companies' = [c \in DOMAIN companies |-> [companies[c] EXCEPT !.invitedCAs = <<>>]]
  /\ UNCHANGED <<users, allocated, analyses, clock, subscriber, requests>>

\* Document.updateMany({_id: {$in: document_ids}}, {status, analysisId})
SyncDocuments(h) ==
  /\ handlers[h].pc = "sync"
  /\ LET data == Messages[handlers[h].msg] IN
       /\ documents' = [d \in DOMAIN documents |->
                          IF d \in SeqToSet(data.document_ids)
                          THEN [documents[d] EXCEPT !.status = "analyzed",
                                                     !.analysisId = data.analysis_id]
                          ELSE documents[d]]
       /\ last' = Done("sync", handlers[h].msg, {}, data.analysis_id, "ok")
  /\ handlers' = [handlers EXCEPT ![h] = Idle]
  /\ UNCHANGED <<users, companies, allocated, analyses, clock, subscriber, requests>>

\* the store call the handler is awaiting (Document.find, findOneAndUpdate or
\* updateMany) rejects without having written, and the rest of the try block
\* is skipped
StoreError_Continues(h) ==
  /\ handlers[h].pc \in {"find", "upsert", "sync"}
  /\ handlers' = [handlers EXCEPT ![h] =
        IF handlers[h].pc = "find" THEN [@ EXCEPT !.pc = "upsert"]
        ELSE IF handlers[h].pc = "upsert" /\ Len(Messages[@.msg].document_ids) > 0
        THEN [@ EXCEPT !.pc = "sync"]
        ELSE Idle]
  /\ last' = Done(handlers[h].pc, handlers[h].msg, {},
                  Messages[handlers[h].msg].analysis_id, "error")
  /\ UNCHANGED <<users, companies, allocated, analyses, documents, clock, subscriber, requests>>

StoreError(h) ==
  /\ handlers[h].pc \in {"find", "upsert", "sync"}
  /\ handlers' = [handlers EXCEPT ![h] = Caught]
  /\ last' = Done(handlers[h].pc, handlers[h].msg, {},
                  Messages[handlers[h].msg].analysis_id, "error")
  /\ UNCHANGED <<users, companies, allocated, analyses, documents, clock, subscriber, requests>>

\* disconnect(): awaits subscriber.quit() and nothing else; the handlers that
\* are at an await go on against the store afterwards
disconnect ==
  /\ subscriber = "subscribed"
  /\ subscriber' = "closed"
  /\ last' = Done("disconnect", NULL, {}, NULL, "ok")
  /\ UNCHANGED <<users, companies, allocated, analyses, documents, handlers, clock,
                 requests>>

\* time passes between two store operations
Tick ==
  /\ clock < MaxClock
  /\ clock' = clock + 1
  /\ UNCHANGED <<users, companies, allocated, analyses, documents, handlers, last, subscriber, requests>>

(***************************************************************************)
(* controllers/document.controller.js (document.routes.js: authenticate)   *)
(***************************************************************************)
DocStatuses == {"uploaded", "processing", "analyzed", "failed"}

\* the "Validate user has access to company" block of uploadDocuments and the
\* "Check permissions" block of deleteDocument: "ok", the status, or "500" for
\* the TypeError of req.user.company.toString() on a user without company
DocumentAccess(actor, companyId) ==
  IF users[actor].role = "CA" THEN
    (IF companyId \in SeqToSet(users[actor].invitedCompanies) THEN "ok" ELSE "403")
  ELSE IF users[actor].role \in CompanyRoles THEN
    (IF users[actor].company = NULL THEN "500"
     ELSE IF users[actor].company # companyId THEN "403" ELSE "ok")
  ELSE "ok"

uploadDocuments(actor, companyId) ==
  /\ DocumentAccess(actor, companyId) = "ok"
  /\ \E i \in 1..Len(DocOrder) :
       /\ DocOrder[i] \notin allocated
       /\ \A j \in 1..(i - 1) : DocOrder[j] \in allocated
       /\ documents' = [d \in DOMAIN documents \cup {DocOrder[i]} |->
                          IF d = DocOrder[i]
                          THEN [filename |-> "report.pdf", fileType |-> "pdf",
                                company |-> companyId, status |-> "uploaded",
                                analysisId |-> NULL]
                          ELSE documents[d]]
       /\ allocated' = allocated \cup {DocOrder[i]}
  /\ last' = Done("uploadDocuments", NULL, {}, NULL, "201")
  /\ UNCHANGED <<users, companies, analyses, handlers, clock, subscriber, requests>>

deleteDocument(actor, documentId) ==
  /\ documentId \in DOMAIN documents
  /\ DocumentAccess(actor, documents[documentId].company) = "ok"
  /\ documents' = [d \in DOMAIN documents \ {documentId} |-> documents[d]]
  /\ last' = Done("deleteDocument", NULL, {}, NULL, "200")
  /\ UNCHANGED <<users, companies, allocated, analyses, handlers, clock, subscriber, requests>>

\* status and analysisId of req.body, NULL when absent
updateDocumentStatus(actor, documentId, status, analysisId) ==
  /\ documentId \in DOMAIN documents
  /\ documents' = [documents EXCEPT
                     ![documentId].status = IF status # NULL THEN status ELSE @,
                     ![documentId].analysisId = IF analysisId # NULL THEN analysisId ELSE @]
  /\ last' = Done("updateDocumentStatus", NULL, {}, analysisId, "200")
  /\ UNCHANGED <<users, companies, allocated, analyses, handlers, clock, subscriber, requests>>

(***************************************************************************)
(* controllers/analysis.controller.js                                      *)
(***************************************************************************)
\* POST /store (no authenticate): uploadedBy of req.body, NULL when absent
storeAnalysis(companyId, documentIds, analysisData, uploadedBy) ==
  /\ companyId \in DOMAIN companies
  /\ uploadedBy # NULL
  /\ \E id \in UuidPool \ allocated :
       LET docs == FindDocs(DocOrder, SeqToSet(documentIds)) IN
       /\ analyses' = [a \in DOMAIN analyses \cup {id} |->
            IF a = id
            THEN [company |-> companyId, jobId |-> "J1", documents |-> docs,
                  documentCount |-> Len(docs), totalPagesProcessed |-> 0,
                  consolidatedData |-> analysisData,
                  healthAnalysis |->
                    IF Payloads[analysisData].financial_health_analysis # NULL
                    THEN Payloads[analysisData].financial_health_analysis ELSE "{}",
                  status |-> "completed", uploadedBy |-> uploadedBy,
                  createdAt |-> clock, updatedAt |-> clock]
            ELSE analyses[a]]
       /\ documents' = [d \in DOMAIN documents |->
            IF d \in SeqToSet(documentIds)
            THEN [documents[d] EXCEPT !.status = "analyzed", !.analysisId = id]
            ELSE documents[d]]
       /\ allocated' = allocated \cup {id}
       /\ last' = Done("storeAnalysis", NULL, {companyId}, id, "201")
  /\ UNCHANGED <<users, companies, handlers, clock, subscriber, requests>>

\* the query with the company left out when analysis ids are given
CompareQuery_ByIdsAlone(companyId, analysisIds, startDate, endDate) ==
  {a \in DOMAIN analyses :
     /\ analyses[a].status = "completed"
     /\ (analysisIds = {} => analyses[a].company = companyId)
     /\ (analysisIds # {} => a \in analysisIds)
     /\ (startDate # -1 => analyses[a].createdAt >= startDate)
     /\ (endDate # -1 => analyses[a].createdAt <= endDate)}

\* Analysis.find({company, status: 'completed'})
CompletedOf(companyId) ==
  {a \in DOMAIN analyses :
     analyses[a].company = companyId /\ analyses[a].status = "completed"}

\* GET /:analysisId; populate('company') leaves null for a missing company and
\* analysis.company._id then throws (500). cids: the owner of the data returned.
getAnalysis(actor, analysisId) ==
  /\ analysisId \in DOMAIN analyses
  /\ last' = IF analyses[analysisId].company \in DOMAIN companies
             THEN Done("getAnalysis", actor, {analyses[analysisId].company}, analysisId, "200")
             ELSE Done("getAnalysis", actor, {}, analysisId, "500")
  /\ UNCHANGED <<users, companies, allocated, analyses, documents, handlers, clock, subscriber, requests>>

\* GET /history/company/:companyId
getCompanyHistory(actor, companyId) ==
  /\ last' = Done("getCompanyHistory", actor,
                  {analyses[a].company : a \in CompletedOf(companyId)}, NULL, "200")
  /\ UNCHANGED <<users, companies, allocated, analyses, documents, handlers, clock, subscriber, requests>>

\* a date filter that is absent from the query string
NoDate == -1

\* the query of compareAnalyses: company, status, and the optional analysisIds
\* (a set; the empty string is no filter) and createdAt range
CompareQuery(companyId, analysisIds, startDate, endDate) ==
  {a \in CompletedOf(companyId) :
     /\ (analysisIds # {} => a \in analysisIds)
     /\ (startDate # NoDate => analyses[a].createdAt >= startDate)
     /\ (endDate # NoDate => analyses[a].createdAt <= endDate)}

\* .sort({createdAt: 1}): every order of the ids with createdAt ascending
\* (records with equal createdAt come in either order)
SortedByCreatedAt(S) ==
  {q \in [1..Cardinality(S) -> S] :
     /\ \A i, j \in 1..Cardinality(S) : i # j => q[i] # q[j]
     /\ \A i, j \in 1..Cardinality(S) :
          i < j => analyses[q[i]].createdAt <= analyses[q[j]].createdAt}

\* analysis.consolidatedData?.calculated_metrics || {}
CalculatedMetricsOf(a) == Payloads[analyses[a].consolidatedData].calculated_metrics

\* a missing value read as 0
MetricValueOf_DefaultZero(metricData) ==
  IF metricData.value # <<>> THEN metricData.value
  ELSE IF metricData.current_year # <<>> THEN metricData.current_year
  ELSE <<0>>

\* metricData.value, else metricData.current_year.value, else null
MetricValueOf(metricData) ==
  IF metricData.value # <<>> THEN metricData.value
  ELSE IF metricData.current_year # <<>> THEN metricData.current_year
  ELSE <<>>

RECURSIVE MetricTrend(_, _)
\* metricTrends[metric]: one point per analysis that has a value for it
MetricTrend(sorted, metric) ==
  IF sorted = <<>> THEN <<>>
  ELSE LET a  == Head(sorted)
           cm == CalculatedMetricsOf(a)
           has == /\ metric \in DOMAIN cm
                  /\ MetricValueOf(cm[metric]) # <<>>
                  /\ cm[metric].available # FALSE
       IN (IF has THEN <<[date |-> analyses[a].createdAt,
                          value |-> MetricValueOf(cm[metric])[1],
                          analysis_id |-> a]>>
           ELSE <<>>) \o MetricTrend(Tail(sorted), metric)

Abs(x) == IF x < 0 THEN -x ELSE x

\* 0.0001 in units of 0.00005
Epsilon == 2

ChangeThreshold == 5

\* the earlier controller: no test of the first value
NearZero_Never(first) == FALSE

\* Math.abs(first) < 0.0001
NearZero(first) == Abs(first) < Epsilon

\* change > 5 with the bound included
IsImproving_Inclusive(first, final) ==
  (final - first) * 100 >= ChangeThreshold * Abs(first)

\* ((last - first) / Math.abs(first)) * 100 > 5, both sides multiplied by
\* |first| (positive wherever the code gets to the comparison, or zero in the
\* earlier controller, where the quotient is +-Infinity or NaN)
IsImproving(first, final) ==
  (final - first) * 100 > ChangeThreshold * Abs(first)

\* ((last - first) / Math.abs(first)) * 100 < -5
IsDeclining(first, final) ==
  (final - first) * 100 < (-ChangeThreshold) * Abs(first)

\* the label with a tie counted as improving
generateSummary_TieImproves(improving, declining, healthProgression) ==
  [trend |-> IF Cardinality(improving) >= Cardinality(declining) THEN "improving"
             ELSE "declining",
   improving |-> Cardinality(improving),
   declining |-> Cardinality(declining),
   latest |-> healthProgression[Len(healthProgression)].health_status]

\* generateSummary: the sentence's variable parts (trend label, the two
\* counts, the latest health status)
generateSummary(improving, declining, healthProgression) ==
  [trend |-> IF Cardinality(improving) > Cardinality(declining) THEN "improving"
             ELSE IF Cardinality(declining) > Cardinality(improving) THEN "declining"
             ELSE "stable",
   improving |-> Cardinality(improving),
   declining |-> Cardinality(declining),
   latest |-> healthProgression[Len(healthProgression)].health_status]

\* buildComparisonData over the sorted query result. The improving and
\* declining lists are kept as sets of their entries (their order, by change,
\* is not represented); healthAnalysis stays the opaque value the record holds.
buildComparisonData(sorted) ==
  LET names  == UNION {DOMAIN CalculatedMetricsOf(sorted[i]) : i \in 1..Len(sorted)}
      trends == [m \in names |-> MetricTrend(sorted, m)]
      first(m) == trends[m][1].value
      final(m) == trends[m][Len(trends[m])].value
      compared(m) == Len(trends[m]) >= 2 /\ ~NearZero(first(m))
      entry(m) == [metric |-> m, first_value |-> first(m), last_value |-> final(m)]
      improving == {entry(m) : m \in {n \in names : compared(n) /\ IsImproving(first(n), final(n))}}
      declining == {entry(m) : m \in {n \in names : compared(n) /\ IsDeclining(first(n), final(n))}}
      healthProgression ==
        [i \in 1..Len(sorted) |->
           [analysis_id |-> sorted[i], date |-> analyses[sorted[i]].createdAt,
            health_status |-> analyses[sorted[i]].healthAnalysis]]
  IN [analyses |-> sorted,
      health_progression |-> healthProgression,
      metric_trends |-> trends,
      improving_metrics |-> improving,
      declining_metrics |-> declining,
      summary |-> generateSummary(improving, declining, healthProgression)]

\* the length test with the bound one too low
TooFew_One(n) == n < 1

\* analyses.length < 2
TooFew(n) == n < 2

\* GET /compare/company/:companyId?analysisIds=&startDate=&endDate=
\* populate('company') leaves null for a deleted company, and
\* analyses[0].company.name then throws (500).
compareAnalyses(actor, companyId, analysisIds, startDate, endDate) ==
  /\ \E sorted \in SortedByCreatedAt(CompareQuery(companyId, analysisIds, startDate, endDate)) :
       LET query == [query |-> [companyId |-> companyId, analysisIds |-> analysisIds,
                                startDate |-> startDate, endDate |-> endDate]]
       IN last' =
            IF TooFew(Len(sorted))
            THEN Done("compareAnalyses", actor, {}, NULL, "400") @@ query
            ELSE IF companyId \notin DOMAIN companies
            THEN Done("compareAnalyses", actor, {}, NULL, "500") @@ query
            ELSE Done("compareAnalyses", actor,
                      {analyses[sorted[i]].company : i \in 1..Len(sorted)}, NULL, "200")
                   @@ query @@ [report |-> buildComparisonData(sorted)]
  /\ UNCHANGED <<users, companies, allocated, analyses, documents, handlers, clock, subscriber, requests>>

(***************************************************************************)
(* Initial state: the database as scripts/seed.js builds it, cut down to   *)
(* its first company (representative john, company user jane, the CA       *)
(* invited); michael is a COMPANY_ADMIN the seed has created but not yet   *)
(* given a company, and the second company id is left for createCompany.   *)
(* No analyses, no documents, the consumer idle.                           *)
(***************************************************************************)
SeedUsers ==
  [u \in UserIds |->
     CASE u = "admin"   -> [role |-> "SUPER_ADMIN",   company |-> NULL, invitedCompanies |-> <<>>]
       [] u = "john"    -> [role |-> "COMPANY_ADMIN", company |-> "c1", invitedCompanies |-> <<>>]
       [] u = "michael" -> [role |-> "COMPANY_ADMIN", company |-> NULL, invitedCompanies |-> <<>>]
       [] u = "ca"      -> [role |-> "CA", company |-> NULL, invitedCompanies |-> <<"c1">>]
       [] u = "jane"    -> [role |-> "COMPANY_USER",  company |-> "c1", invitedCompanies |-> <<>>]]

SeedCompanies ==
  [c \in {"c1"} |->
     [representative |-> "john",
      companyAdmins  |-> {"john"},
      invitedCAs     |-> <<[ca |-> "ca", invitedBy |-> "admin", invitedAt |-> 0]>>]]

(***************************************************************************)
(* controllers/company.controller.js (with the guards of company.routes.js)*)
(***************************************************************************)
createCompany(actor, representative, c) ==
  /\ isSuperAdmin(actor) = "next"
  /\ users[representative].role \in CompanyRoles
  /\ c \notin allocated
  /\ companies' = [x \in DOMAIN companies \cup {c} |->
                     IF x = c
                     THEN [representative |-> representative,
                           companyAdmins |-> {}, invitedCAs |-> <<>>]
                     ELSE companies[x]]
  /\ allocated' = allocated \cup {c}
  /\ users' = [users EXCEPT ![representative].company = c]
  /\ last' = Done("createCompany", representative, {c}, NULL, "201")
  /\ UNCHANGED <<analyses, documents, handlers, clock, subscriber, requests>>

\* GET /api/companies without search, the page holding every match: the
\* companies the role's query selects
getAllCompanies(actor) ==
  /\ last' = Done("getAllCompanies", actor,
                  IF users[actor].role = "SUPER_ADMIN" THEN DOMAIN companies
                  ELSE IF users[actor].role = "CA"
                  THEN {c \in DOMAIN companies : actor \in InvitedCASet(companies[c])}
                  ELSE IF users[actor].role \in CompanyRoles
                  THEN {c \in DOMAIN companies : c = users[actor].company}
                  ELSE DOMAIN companies,
                  NULL, "200")
  /\ UNCHANGED <<users, companies, allocated, analyses, documents, handlers, clock, subscriber, requests>>

deleteCompany(actor, companyId) ==
  /\ isSuperAdmin(actor) = "next"
  /\ companyId \in DOMAIN companies
  /\ companies' = [x \in DOMAIN companies \ {companyId} |-> companies[x]]
  /\ users' = [u \in UserIds |->
                 IF users[u].company = companyId
                 THEN [users[u] EXCEPT !.company = NULL] ELSE users[u]]
  /\ last' = Done("deleteCompany", NULL, {companyId}, NULL, "200")
  /\ UNCHANGED <<allocated, analyses, documents, handlers, clock, subscriber, requests>>

inviteCA(actor, companyId, caId) ==
  /\ isCompanyAdmin(actor, companyId) = "next"
  /\ companyId \in DOMAIN companies
  /\ users[caId].role = "CA"
  /\ ~(\E i \in 1..Len(companies[companyId].invitedCAs) :
         companies[companyId].invitedCAs[i].ca = caId)
  /\ Len(users[caId].invitedCompanies) < MaxInvited
  /\ companies' = [companies EXCEPT
                     ![companyId] = Company_inviteCA(@, caId, actor)]
  /\ users' = [users EXCEPT ![caId].invitedCompanies =
                 IF companyId \in SeqToSet(@) THEN @ ELSE Append(@, companyId)]
  /\ last' = Done("inviteCA", caId, {companyId}, NULL, "200")
  /\ UNCHANGED <<allocated, analyses, documents, handlers, clock, subscriber, requests>>

removeCA(actor, companyId, caId) ==
  /\ isCompanyAdmin(actor, companyId) = "next"
  /\ companyId \in DOMAIN companies
  /\ companies' = [companies EXCEPT ![companyId] = Company_removeCA(@, caId)]
  /\ users' = [users EXCEPT ![caId].invitedCompanies = Filter(@, {companyId})]
  /\ last' = Done("removeCA", caId, {companyId}, NULL, "200")
  /\ UNCHANGED <<allocated, analyses, documents, handlers, clock, subscriber, requests>>

\* inviteCA as the requests of two clients run it: each await is a point where
\* the other request can run. Up to the check of alreadyInvited: the company
\* and the CA are loaded; listed is ca.invitedCompanies.includes(companyId) of
\* the loaded CA.
inviteCA_find(r, actor, companyId, caId) ==
  /\ requests[r].pc = "idle"
  /\ isCompanyAdmin(actor, companyId) = "next"
  /\ companyId \in DOMAIN companies
  /\ users[caId].role = "CA"
  /\ Len(users[caId].invitedCompanies)
        + Cardinality({q \in RequestIds : requests[q].pc # "idle" /\ requests[q].ca = caId})
        < MaxInvited
  /\ IF \E i \in 1..Len(companies[companyId].invitedCAs) :
           companies[companyId].invitedCAs[i].ca = caId
     THEN /\ requests' = requests
          /\ last' = Done("inviteCA", caId, {companyId}, NULL, "400")
     ELSE /\ requests' = [requests EXCEPT ![r] =
                 [pc |-> "company", actor |-> actor, company |-> companyId, ca |-> caId,
                  listed |-> companyId \in SeqToSet(users[caId].invitedCompanies)]]
          /\ last' = Done("inviteCA", caId, {companyId}, NULL, "found")
  /\ UNCHANGED <<users, companies, allocated, analyses, documents, handlers, clock, subscriber>>

\* company.inviteCA(caId, req.user._id); await company.save(): the loaded
\* company had no invitation of the CA, so the save is a $push of the new
\* record onto the stored array (a push carries no version condition); the
\* save of a company deleted meanwhile fails (500)
inviteCA_saveCompany(r) ==
  /\ requests[r].pc = "company"
  /\ LET q == requests[r] IN
       IF q.company \notin DOMAIN companies
       THEN /\ companies' = companies
            /\ requests' = [requests EXCEPT ![r] = NoRequest]
            /\ last' = Done("inviteCA", q.ca, {q.company}, NULL, "500")
       ELSE /\ companies' = [companies EXCEPT ![q.company].invitedCAs =
                   Append(@, [ca |-> q.ca, invitedBy |-> q.actor, invitedAt |-> clock])]
            /\ requests' = [requests EXCEPT ![r].pc = "user"]
            /\ last' = Done("inviteCA", q.ca, {q.company}, NULL, "saved")
  /\ UNCHANGED <<users, allocated, analyses, documents, handlers, clock, subscriber>>

\* if (!ca.invitedCompanies.includes(companyId)) { push; await ca.save() }
inviteCA_saveUser(r) ==
  /\ requests[r].pc = "user"
  /\ LET q == requests[r] IN
       /\ users' = IF q.listed THEN users
                   ELSE [users EXCEPT ![q.ca].invitedCompanies = Append(@, q.company)]
       /\ last' = Done("inviteCA", q.ca, {q.company}, NULL, "200")
  /\ requests' = [requests EXCEPT ![r] = NoRequest]
  /\ UNCHANGED <<companies, allocated, analyses, documents, handlers, clock, subscriber>>

addCompanyAdmin(actor, companyId, userId) ==
  /\ isSuperAdmin(actor) = "next"
  /\ companyId \in DOMAIN companies
  /\ users[userId].role = "COMPANY_ADMIN"
  /\ ~(users[userId].company # NULL /\ users[userId].company # companyId)
  /\ userId \notin companies[companyId].companyAdmins
  /\ companies' = [companies EXCEPT ![companyId].companyAdmins = @ \cup {userId}]
  /\ users' = [users EXCEPT ![userId].company = companyId]
  /\ last' = Done("addCompanyAdmin", userId, {companyId}, NULL, "200")
  /\ UNCHANGED <<allocated, analyses, documents, handlers, clock, subscriber, requests>>

removeCompanyAdmin(actor, companyId, userId) ==
  /\ isSuperAdmin(actor) = "next"
  /\ companyId \in DOMAIN companies
  /\ companies' = [companies EXCEPT ![companyId].companyAdmins = @ \ {userId}]
  /\ last' = Done("removeCompanyAdmin", userId, {companyId}, NULL, "200")
  /\ UNCHANGED <<users, allocated, analyses, documents, handlers, clock, subscriber, requests>>

(***************************************************************************)
(* controllers/admin.controller.js (admin.routes.js: isSuperAdmin on all)  *)
(***************************************************************************)
assignCAToCompanies(actor, caId, companyIds) ==
  /\ isSuperAdmin(actor) = "next"
  /\ users[caId].role = "CA"
  /\ SeqToSet(companyIds) \subseteq DOMAIN companies
  /\ Len(users[caId].invitedCompanies) + Len(companyIds) <= MaxInvited
  /\ users' = [users EXCEPT ![caId].invitedCompanies = @ \o companyIds]
  /\ last' = Done("assignCAToCompanies", caId, SeqToSet(companyIds), NULL, "200")
  /\ UNCHANGED <<companies, allocated, analyses, documents, handlers, clock, subscriber, requests>>

removeCAFromCompanies(actor, caId, companyIds) ==
  /\ isSuperAdmin(actor) = "next"
  /\ users[caId].role = "CA"
  /\ users' = [users EXCEPT ![caId].invitedCompanies = Filter(@, SeqToSet(companyIds))]
  /\ last' = Done("removeCAFromCompanies", caId, SeqToSet(companyIds), NULL, "200")
  /\ UNCHANGED <<companies, allocated, analyses, documents, handlers, clock, subscriber, requests>>

Init ==
  /\ users = SeedUsers
  /\ companies = SeedCompanies
  /\ allocated = {"c1"}
  /\ analyses = <<>>
  /\ documents = <<>>
  /\ handlers = [h \in HandlerIds |-> Idle]
  /\ clock = 0
  /\ last = Done("seed", NULL, {}, NULL, NULL)
  /\ subscriber = "subscribed"
  /\ requests = [r \in RequestIds |-> NoRequest]

NextAccess ==
  \/ \E actor \in UserIds, rep \in UserIds, c \in CompanyIds : createCompany(actor, rep, c)
  \/ \E actor \in UserIds, c \in CompanyIds : deleteCompany(actor, c)
  \/ \E actor \in UserIds, c \in CompanyIds, ca \in UserIds : inviteCA(actor, c, ca)
  \/ \E actor \in UserIds, c \in CompanyIds, ca \in UserIds : removeCA(actor, c, ca)
  \/ \E actor \in UserIds, c \in CompanyIds, u \in UserIds : addCompanyAdmin(actor, c, u)
  \/ \E actor \in UserIds, c \in CompanyIds, u \in UserIds : removeCompanyAdmin(actor, c, u)
  \/ \E actor \in UserIds, ca \in UserIds, cids \in CompanyIdLists :
        assignCAToCompanies(actor, ca, cids)
  \/ \E actor \in UserIds, ca \in UserIds, cids \in CompanyIdLists :
        removeCAFromCompanies(actor, ca, cids)

SpecAccess == Init /\ [][NextAccess]_vars

\* the company listing next to the requests that change what it selects
NextList ==
  \/ \E actor \in UserIds, rep \in UserIds, c \in CompanyIds : createCompany(actor, rep, c)
  \/ \E actor \in UserIds, c \in CompanyIds : deleteCompany(actor, c)
  \/ \E actor \in UserIds, c \in CompanyIds, ca \in UserIds : inviteCA(actor, c, ca)
  \/ \E actor \in UserIds, c \in CompanyIds, ca \in UserIds : removeCA(actor, c, ca)
  \/ \E actor \in UserIds, ca \in UserIds, cids \in CompanyIdLists :
        assignCAToCompanies(actor, ca, cids)
  \/ \E actor \in UserIds, ca \in UserIds, cids \in CompanyIdLists :
        removeCAFromCompanies(actor, ca, cids)
  \/ \E actor \in UserIds : getAllCompanies(actor)

SpecList == Init /\ [][NextList]_vars

\* the consumer's subscription delivering to one handler at a time, the
\* document and store requests, and the clock
IngestMsgs == {"mA", "mB", "mNoId", "mNoData", "mBadCo", "mJunk"}

NextIngest ==
  \/ \E m \in IngestMsgs : Receive("h1", m)
  \/ FindDocuments("h1")
  \/ Upsert("h1")
  \/ SyncDocuments("h1")
  \/ Tick
  \/ \E actor \in UserIds, c \in CompanyIds : uploadDocuments(actor, c)
  \/ \E actor \in UserIds, d \in DocIds : deleteDocument(actor, d)
  \/ \E actor \in UserIds, d \in DocIds, st \in DocStatuses \cup {NULL},
         aid \in {NULL, "A1"} : updateDocumentStatus(actor, d, st, aid)
  \/ \E c \in CompanyIds, ids \in {<<>>, <<"D1">>}, by \in {NULL, "ca"} :
        storeAnalysis(c, ids, "P1", by)

SpecIngest == Init /\ [][NextIngest]_vars

\* the subscription with a store that can fail under the handler
FaultMsgs == {"mA", "mB", "mC", "mNoId", "mBadCo", "mJunk"}

NextFault ==
  \/ \E m \in FaultMsgs : Receive("h1", m)
  \/ FindDocuments("h1")
  \/ Upsert("h1")
  \/ SyncDocuments("h1")
  \/ StoreError("h1")
  \/ \E actor \in UserIds, c \in CompanyIds : uploadDocuments(actor, c)

SpecFault == Init /\ [][NextFault]_vars

\* Two clients inviting and removing CAs at the same time
NextInvite ==
  \/ \E r \in RequestIds, actor \in {"admin", "john"}, c \in CompanyIds, ca \in {"ca"} :
       inviteCA_find(r, actor, c, ca)
  \/ \E r \in RequestIds : inviteCA_saveCompany(r)
  \/ \E r \in RequestIds : inviteCA_saveUser(r)
  \/ \E actor \in {"admin", "john"}, c \in CompanyIds, ca \in {"ca"} : removeCA(actor, c, ca)
  \/ \E actor \in {"admin"}, c \in CompanyIds : deleteCompany(actor, c)
  \/ Tick

SpecInvite == Init /\ [][NextInvite]_vars

\* The consumer beside the routes that change companies and accounts
FrameMsgs == {"mA", "mBadCo", "mJunk"}

NextFrame ==
  \/ \E m \in FrameMsgs : Receive("h1", m)
  \/ FindDocuments("h1")
  \/ Upsert("h1")
  \/ SyncDocuments("h1")
  \/ StoreError("h1")
  \/ \E actor \in {"ca"}, c \in CompanyIds : uploadDocuments(actor, c)
  \/ \E actor \in {"admin"}, c \in CompanyIds, ca \in {"ca"} : removeCA(actor, c, ca)
  \/ \E actor \in {"admin"}, c \in CompanyIds, ca \in {"ca"} : inviteCA(actor, c, ca)
  \/ \E actor \in {"admin"}, c \in CompanyIds : deleteCompany(actor, c)

SpecFrame == Init /\ [][NextFrame]_vars

\* The subscription as the client library drives it: the async callback is
\* called for each message as it arrives and the promise it returns is not
\* awaited, so a second invocation can start while the first is at an await.
ConcurrentMsgs == {"mA", "mB", "mC"}

NextConcurrent ==
  \/ \E h \in HandlerIds, m \in ConcurrentMsgs : Receive(h, m)
  \/ \E h \in HandlerIds : FindDocuments(h)
  \/ \E h \in HandlerIds : Upsert(h)
  \/ \E h \in HandlerIds : SyncDocuments(h)
  \/ \E actor \in UserIds, c \in CompanyIds : uploadDocuments(actor, c)

SpecConcurrent == Init /\ [][NextConcurrent]_vars

\* the subscription with a shutdown arriving at any moment
ShutdownMsgs == {"mA", "mC", "mNoId"}

NextShutdown ==
  \/ \E m \in ShutdownMsgs : Receive("h1", m)
  \/ FindDocuments("h1")
  \/ Upsert("h1")
  \/ SyncDocuments("h1")
  \/ disconnect
  \/ \E actor \in UserIds, c \in CompanyIds : uploadDocuments(actor, c)

SpecShutdown == Init /\ [][NextShutdown]_vars

\* Messages for an analysis_id that is stored already: other content, or no job_id
ReingestMsgs == {"mA", "mB", "mNoJob"}

NextReingest ==
  \/ \E m \in ReingestMsgs : Receive("h1", m)
  \/ FindDocuments("h1")
  \/ Upsert("h1")
  \/ SyncDocuments("h1")
  \/ Tick
  \/ \E actor \in {"ca"}, c \in CompanyIds : uploadDocuments(actor, c)

SpecReingest == Init /\ [][NextReingest]_vars

\* Duplicates of a message delivered to two invocations of the callback, over
\* a document collection that does not change meanwhile: D1 uploaded or not.
InitDuplicate ==
  /\ users = SeedUsers
  /\ companies = SeedCompanies
  /\ analyses = <<>>
  /\ handlers = [h \in HandlerIds |-> Idle]
  /\ clock = 0
  /\ last = Done("seed", NULL, {}, NULL, NULL)
  /\ subscriber = "subscribed"
  /\ requests = [r \in RequestIds |-> NoRequest]
  /\ \/ documents = <<>> /\ allocated = {"c1"}
     \/ /\ documents = [d \in {"D1"} |->
                           [filename |-> "report.pdf", fileType |-> "pdf", company |-> "c1",
                            status |-> "uploaded", analysisId |-> NULL]]
        /\ allocated = {"c1", "D1"}

DuplicateMsgs == {"mA", "mC"}

NextDuplicate ==
  \/ \E h \in HandlerIds, m \in DuplicateMsgs : Receive(h, m)
  \/ \E h \in HandlerIds : FindDocuments(h)
  \/ \E h \in HandlerIds : Upsert(h)
  \/ \E h \in HandlerIds : UpsertDuplicateKey(h)
  \/ \E h \in HandlerIds : SyncDocuments(h)
  \/ Tick

SpecDuplicate == InitDuplicate /\ [][NextDuplicate]_vars

\* ingestion of well-formed messages and the read requests of analysis.routes.js
ReadMsgs == {"mA", "mC"}

NextRead ==
  \/ \E m \in ReadMsgs : Receive("h1", m)
  \/ FindDocuments("h1")
  \/ Upsert("h1")
  \/ SyncDocuments("h1")
  \/ \E actor \in UserIds, a \in AnalysisIds : getAnalysis(actor, a)
  \/ \E actor \in UserIds, c \in CompanyIds : getCompanyHistory(actor, c)
  \/ \E actor \in UserIds, c \in CompanyIds, ids \in {{}, {"A1"}, {"A1", "A2"}},
         sd \in {NoDate, 0, 1}, ed \in {NoDate, 0} : compareAnalyses(actor, c, ids, sd, ed)

SpecRead == Init /\ [][NextRead]_vars

\* an analysis as ingestion leaves it: of company c, payload p, stored at t
Ingested(c, p, t) ==
  [company |-> c, jobId |-> "J1", documents |-> <<>>, documentCount |-> 0,
   totalPagesProcessed |-> 0, consolidatedData |-> p,
   healthAnalysis |-> IF Payloads[p].financial_health_analysis # NULL
                      THEN Payloads[p].financial_health_analysis ELSE "{}",
   status |-> "completed", uploadedBy |-> NULL, createdAt |-> t, updatedAt |-> t]

\* payloads of the optional third analysis
ThirdPayloads == {"V100", "P2"}

\* The seeded database after two or three analyses of c1 were ingested, their
\* payloads and creation times drawn from the sets above.
InitCompare ==
  /\ users = SeedUsers
  /\ companies = SeedCompanies
  /\ documents = <<>>
  /\ handlers = [h \in HandlerIds |-> Idle]
  /\ clock = MaxClock
  /\ last = Done("seed", NULL, {}, NULL, NULL)
  /\ subscriber = "subscribed"
  /\ requests = [r \in RequestIds |-> NoRequest]
  /\ \E p1 \in DOMAIN MetricValues, p2 \in DOMAIN MetricValues, t2 \in 0..MaxClock :
       \/ /\ analyses = [a \in {"A1", "A2"} |->
                           IF a = "A1" THEN Ingested("c1", p1, 0) ELSE Ingested("c1", p2, t2)]
          /\ allocated = {"c1"}
       \/ \E p3 \in ThirdPayloads, t3 \in 0..MaxClock :
            /\ analyses = [a \in {"A1", "A2", "U1"} |->
                             IF a = "A1" THEN Ingested("c1", p1, 0)
                             ELSE IF a = "A2" THEN Ingested("c1", p2, t2)
                             ELSE Ingested("c1", p3, t3)]
            /\ allocated = {"c1", "U1"}

NextCompare ==
  \E ids \in {{}, {"A1", "A2"}}, sd \in {NoDate, 0} :
    compareAnalyses("ca", "c1", ids, sd, NoDate)

SpecCompare == InitCompare /\ [][NextCompare]_vars

\* The database with three analyses: two completed ones of c1 and a third that
\* is of c1 or of another company, completed or still processing (the schema's
\* default status, written by no route here), each with a payload of two
\* metrics, of one with gaps, or of none.
FirstPayloads == DOMAIN SeriesPayloads \cup {"P2"}

LastPayloads == {"SUpDown", "SNull"}

ThirdKinds == {<<"c1", "completed">>, <<"c2", "completed">>, <<"c1", "processing">>}

InitSeries ==
  /\ users = SeedUsers
  /\ companies = SeedCompanies
  /\ documents = <<>>
  /\ handlers = [h \in HandlerIds |-> Idle]
  /\ clock = MaxClock
  /\ last = Done("seed", NULL, {}, NULL, NULL)
  /\ subscriber = "subscribed"
  /\ requests = [r \in RequestIds |-> NoRequest]
  /\ allocated = {"c1", "U1"}
  /\ \E p1 \in FirstPayloads, p2 \in FirstPayloads, p3 \in LastPayloads,
        t2 \in 0..MaxClock, t3 \in 0..MaxClock, k \in ThirdKinds :
       analyses = [a \in {"A1", "A2", "U1"} |->
                     IF a = "A1" THEN Ingested("c1", p1, 0)
                     ELSE IF a = "A2" THEN Ingested("c1", p2, t2)
                     ELSE [Ingested(k[1], p3, t3) EXCEPT !.status = k[2]]]

NextSeries ==
  \/ \E c \in CompanyIds, ids \in {{}, {"A1", "A2", "U1"}}, sd \in {NoDate, 0} :
       compareAnalyses("ca", c, ids, sd, NoDate)
  \/ \E actor \in {"admin"}, c \in CompanyIds : deleteCompany(actor, c)

SpecSeries == InitSeries /\ [][NextSeries]_vars

(***************************************************************************)
(* Claims about the access checks and the membership mirrors               *)
(***************************************************************************)
CAs == {u \in UserIds : users[u].role = "CA"}

InvitedIn(p, o) == o \in DOMAIN companies /\ p \in InvitedCASet(companies[o])

\* C2: canAccessOrg(a, o) is true exactly for a SUPER_ADMIN, for a CA whose
\* invitedCompanies holds o, and for a company-level user whose company is o.
C2_CanAccessOrgExactly ==
  \A u \in UserIds, o \in CompanyIds :
    User_hasCompanyAccess(users[u], o) <=>
      \/ users[u].role = "SUPER_ADMIN"
      \/ users[u].role = "CA" /\ o \in SeqToSet(users[u].invitedCompanies)
      \/ users[u].role \in CompanyRoles /\ users[u].company = o

C2_Witness ==
  /\ User_hasCompanyAccess(users["ca"], "c2") /\ ~User_hasCompanyAccess(users["ca"], "c1")
  /\ User_hasCompanyAccess(users["jane"], "c2") /\ ~User_hasCompanyAccess(users["john"], "c2")
  /\ User_hasCompanyAccess(users["admin"], "c1")

RevokeOps == {"removeCA", "removeCAFromCompanies"}

\* C3: once a revoke of practitioner p from organization o has completed, the
\* access check of p on o fails (until another request changes the state).
C3_RevokeDeniesAccess ==
  (last.op \in RevokeOps /\ last.user \in CAs) =>
    \A o \in last.cids :
      /\ ~User_hasCompanyAccess(users[last.user], o)
      /\ hasCompanyAccess(last.user, o) = "403"

C3_Witness ==
  /\ last.op = "removeCAFromCompanies" /\ last.user = "ca" /\ last.cids = {"c1", "c2"}
  /\ InvitedIn("ca", "c1") /\ InvitedIn("ca", "c2")

InviteRevokeOps == {"inviteCA", "removeCA", "assignCAToCompanies", "removeCAFromCompanies"}

\* C4: after a completed invite or revoke operation, o is in p.invitedCompanies
\* if and only if p has an invitation record in o.invitedCAs.
C4_MirrorsAgree ==
  last.op \in InviteRevokeOps =>
    \A p \in CAs, o \in CompanyIds :
      o \in SeqToSet(users[p].invitedCompanies) <=> InvitedIn(p, o)

\* C5: the representative of a company passes the isCompanyAdmin check on it.
C5_RepresentativeIsAdmin ==
  \A o \in DOMAIN companies : isCompanyAdmin(companies[o].representative, o) = "next"

C5_Witness ==
  \E o \in DOMAIN companies :
    /\ companies[o].representative \notin companies[o].companyAdmins
    /\ users[companies[o].representative].company # o
    /\ isCompanyAdmin(companies[o].representative, o) = "next"

RoleCheck(u, o) == users[u].company = o

MembershipCheck(u, o) == Company_isCompanyAdmin(companies[o], u)

\* C6: when the role-based check and the membership check of a COMPANY_ADMIN
\* on a company disagree, isCompanyAdmin does not let the request through.
C6_MismatchFailsClosed ==
  \A u \in UserIds, o \in DOMAIN companies :
    (users[u].role = "COMPANY_ADMIN" /\ RoleCheck(u, o) # MembershipCheck(u, o))
      => isCompanyAdmin(u, o) # "next"

\* C7: caHasCompanyAccess lets a request through exactly when the actor is a CA
\* with an invitation record in the company's own invitedCAs list.
C7_PractitionerOnOrgSide ==
  \A u \in UserIds, o \in CompanyIds :
    caHasCompanyAccess(u, o) = "next" <=> (users[u].role = "CA" /\ InvitedIn(u, o))

C7_Witness ==
  /\ InvitedIn("ca", "c1") /\ "c1" \notin SeqToSet(users["ca"].invitedCompanies)
  /\ caHasCompanyAccess("ca", "c1") = "next"
  /\ "c2" \in DOMAIN companies /\ "c2" \in SeqToSet(users["ca"].invitedCompanies)
  /\ caHasCompanyAccess("ca", "c2") = "403"

(***************************************************************************)
(* Claims about the analysis reads and the ingestion consumer              *)
(***************************************************************************)
ReadOps == {"getAnalysis", "getCompanyHistory", "compareAnalyses"}

\* C1: a read request (getAnalysis, getCompanyHistory, compareAnalyses) answers
\* with analysis data of organization o only to an actor who can access o.
C1_ReadsAccessChecked ==
  (last.op \in ReadOps /\ last.res = "200") =>
    \A o \in last.cids : User_hasCompanyAccess(users[last.user], o)

\* an Upsert step that writes the update the record already holds
UpsertReplayStep ==
  /\ \E h \in HandlerIds : handlers[h].pc = "upsert" /\ handlers'[h].pc # "upsert"
  /\ last'.op = "upsert" /\ last'.res = "replayed"

C9_AnalyzedHasAnalysis ==
  \A d \in DOMAIN documents :
    documents[d].status = "analyzed" => documents[d].analysisId \in DOMAIN analyses

\* the step is the arrival of message m
ReceiveStep(m) ==
  /\ last'.op = "receive" /\ last'.user = m
  /\ ~(last' = last /\ handlers' = handlers)

\* C10: the handling of a message without analysis_id or without analysis_data
\* ends at its arrival, with no handler left working on it and both
\* collections as they were.
C10_InvalidDropped ==
  [][\A m \in MsgNames :
       (ReceiveStep(m)
          /\ (Messages[m].analysis_id = NULL \/ Messages[m].analysis_data = NULL))
       => /\ analyses' = analyses
          /\ documents' = documents
          /\ handlers' = handlers]_vars

C10_Witness ==
  /\ last.op = "receive" /\ last.user = "mNoData" /\ last.res = "dropped"
  /\ "D1" \in DOMAIN documents /\ documents["D1"].status = "uploaded"
  /\ "A2" \notin DOMAIN analyses
  /\ \A h \in HandlerIds : handlers[h].pc = "idle"

(***************************************************************************)
(* Claims about failures inside the handling of one message                *)
(***************************************************************************)
ConsumerOps == {"receive", "find", "upsert", "sync"}

FailureRes == {"dropped", "error"}

\* C11: no failure in the handling of a message (unparseable JSON, a missing
\* field, a rejected store call) leaves the handler's promise rejected, and
\* after a failure the subscription callback takes every message delivered.
C11_FailureKeepsSubscription ==
  /\ Alive
  /\ (last.op \in ConsumerOps /\ last.res \in FailureRes) =>
       /\ handlers["h1"] = Idle
       /\ \A m \in FaultMsgs : ENABLED Receive("h1", m)

\* mC was handled after the handling of A1's message had failed at the status
\* update (A1 stored with D1 in its snapshot, D1 never marked)
C11_Witness ==
  /\ last.op = "upsert" /\ last.user = "mC" /\ last.res = "inserted"
  /\ "A1" \in DOMAIN analyses /\ Len(analyses["A1"].documents) = 1
  /\ documents["D1"].status = "uploaded"

\* handler h completes the named stage of its message in this step
FindStep(h) ==
  handlers[h].pc = "find" /\ handlers'[h].pc = "upsert" /\ last'.res = "ok"

UpsertStep(h) ==
  handlers[h].pc = "upsert" /\ handlers'[h] # handlers[h] /\ last'.res # "error"

SyncStep(h) ==
  handlers[h].pc = "sync" /\ handlers'[h] = Idle /\ last'.res = "ok"

\* the ids of the message h is handling that name a document in the collection
ExistingOf(h) == SeqToSet(Messages[handlers[h].msg].document_ids) \cap DOMAIN documents

C19_SyncOnlyAfterUpsert ==
  [][\A h \in HandlerIds :
       /\ (last'.op \in ConsumerOps /\ last'.res \in FailureRes /\ last' # last) =>
            /\ documents' = documents
            /\ handlers'[h].pc = "sync" => handlers[h].pc = "sync"
       /\ (handlers[h].pc = "sync" /\ handlers'[h] # handlers[h] /\ documents' # documents) =>
            LET data == Messages[handlers[h].msg] IN
              /\ data.analysis_id \in DOMAIN analyses
              /\ Owned(analyses[data.analysis_id]) = UpdateOf(data, handlers[h].documents)]_vars

\* the upsert of mA was rejected: A1 is not stored and D1, which mA names,
\* is still as uploaded
C19_Witness ==
  /\ last.op = "upsert" /\ last.user = "mA" /\ last.res = "error"
  /\ "A1" \notin DOMAIN analyses
  /\ "D1" \in DOMAIN documents
  /\ documents["D1"].status = "uploaded" /\ documents["D1"].analysisId = NULL
  /\ handlers["h1"] = Idle

\* C20: at no time are two messages of the subscription being handled, i.e.
\* no handling starts before the one before it has finished.
C20_OneMessageAtATime ==
  Cardinality({h \in HandlerIds : handlers[h].pc # "idle"}) <= 1

(***************************************************************************)
(* Claims about the comparison of analyses                                 *)
(***************************************************************************)
\* the step is a comparison request being answered
CompareStep == last'.op = "compareAnalyses" /\ last' # last

\* C13: a comparison whose query selects fewer than 2 completed analyses of
\* the company is answered 400 with no report, and writes nothing.
C13_TooFewIsAnError ==
  [][CompareStep =>
       /\ UNCHANGED <<users, companies, analyses, documents>>
       /\ Cardinality(CompareQuery(last'.query.companyId, last'.query.analysisIds,
                                   last'.query.startDate, last'.query.endDate)) < 2
            => (last'.res = "400" /\ "report" \notin DOMAIN last')]_vars

\* two analyses of c1 are stored and the request selects one of them
C13_Witness ==
  /\ last.op = "compareAnalyses" /\ last.res = "400"
  /\ Cardinality(CompletedOf(last.query.companyId)) = 2
  /\ Cardinality(CompareQuery(last.query.companyId, last.query.analysisIds,
                              last.query.startDate, last.query.endDate)) = 1

\* a report was returned
Reported == last.op = "compareAnalyses" /\ last.res = "200"

\* the metrics named in an improving or declining list
Listed(list) == {e.metric : e \in list}

\* C14 as stated: every metric with at least 2 points (and a first value that
\* is not 0, so that the change is defined) is listed as improving iff
\* (last - first) / |first| * 100 > 5 and as declining iff it is < -5; the
\* comparisons are written multiplied by |first|.
C14_ClassifiedByChange ==
  Reported =>
    \A m \in DOMAIN last.report.metric_trends :
      LET series == last.report.metric_trends[m]
          f == series[1].value
          l == series[Len(series)].value
      IN (Len(series) >= 2 /\ f # 0) =>
           /\ m \in Listed(last.report.improving_metrics) <=> (l - f) * 100 > 5 * Abs(f)
           /\ m \in Listed(last.report.declining_metrics) <=> (l - f) * 100 < (-5) * Abs(f)

\* C14 as amended: the same for every metric with at least 2 points whose
\* first value is at least 0.0001 in absolute value; such a metric is in both
\* cases part of the raw series of the report.
C14_ClassifiedAwayFromZero ==
  Reported =>
    \A m \in DOMAIN last.report.metric_trends :
      LET series == last.report.metric_trends[m]
          f == series[1].value
          l == series[Len(series)].value
      IN (Len(series) >= 2 /\ Abs(f) >= 2) =>
           /\ m \in Listed(last.report.improving_metrics) <=> (l - f) * 100 > 5 * Abs(f)
           /\ m \in Listed(last.report.declining_metrics) <=> (l - f) * 100 < (-5) * Abs(f)
           /\ \A e \in last.report.improving_metrics \cup last.report.declining_metrics :
                e.metric = m => (e.first_value = f /\ e.last_value = l)

\* a change of exactly 5 per cent over three points: 100, 100, 105 is stable
C14_Witness ==
  /\ Reported
  /\ Len(last.report.metric_trends["current_ratio"]) = 3
  /\ last.report.metric_trends["current_ratio"][1].value = Num(100)[1]
  /\ last.report.metric_trends["current_ratio"][3].value = Num(105)[1]
  /\ last.report.improving_metrics = {} /\ last.report.declining_metrics = {}

\* C15: a metric whose first value is below 0.0001 in absolute value (0
\* included) is in neither the improving nor the declining list.
C15_NearZeroUnclassified ==
  Reported =>
    \A m \in DOMAIN last.report.metric_trends :
      LET series == last.report.metric_trends[m] IN
        (Len(series) >= 1 /\ Abs(series[1].value) < 2) =>
          m \notin Listed(last.report.improving_metrics)
                     \cup Listed(last.report.declining_metrics)

\* first value 0, last value 100
C15_Witness ==
  /\ Reported
  /\ Len(last.report.metric_trends["current_ratio"]) = 2
  /\ last.report.metric_trends["current_ratio"][1].value = 0
  /\ last.report.metric_trends["current_ratio"][2].value = Num(100)[1]
  /\ last.report.improving_metrics = {}

(***************************************************************************)
(* Claims about accounts and the organization they belong to               *)
(***************************************************************************)
\* the account has a company exactly when its role is a company-level one
OrgIffScoped(u) == (u.company # NULL) <=> (u.role \in CompanyRoles)

\* C16: no operation takes an account for which "company is set iff the role
\* is COMPANY_ADMIN or COMPANY_USER" holds to one for which it does not.
C16_PrimaryOrgIffScoped ==
  [][\A u \in UserIds : OrgIffScoped(users[u]) => OrgIffScoped(users'[u])]_vars

\* C17: once deleteCompany(o) has completed, no account refers to o, neither
\* as its company nor in its invitedCompanies.
C17_DeleteDetachesAccounts ==
  last.op = "deleteCompany" =>
    \A u \in UserIds, o \in last.cids :
      users[u].company # o /\ o \notin SeqToSet(users[u].invitedCompanies)

\* C18: the company listing returns every company to a SUPER_ADMIN, to a CA
\* exactly the companies in its invitedCompanies, and to a company-level user
\* exactly its own company.
C18_ListNarrowsByRole ==
  last.op = "getAllCompanies" =>
    LET actor == users[last.user] IN
      last.cids =
        IF actor.role = "SUPER_ADMIN" THEN DOMAIN companies
        ELSE IF actor.role = "CA"
        THEN {o \in DOMAIN companies : o \in SeqToSet(actor.invitedCompanies)}
        ELSE {o \in DOMAIN companies : o = actor.company}

(***************************************************************************)
(* Claims about shutdown, duplicates and overwrites in the consumer        *)
(***************************************************************************)
InFlight(h) == handlers[h].pc \in {"find", "upsert", "sync"}

\* C21: after disconnect no handling starts, and when the connection has been
\* released no message is left before its upsert or between its upsert and
\* its status update.
C21_GracefulShutdown ==
  /\ subscriber = "closed" => \A h \in HandlerIds : ~InFlight(h)
  /\ subscriber = "closed" => last.op # "receive"

\* the message of DuplicateMsgs that carries analysis_id a
MessageOf(a) == CHOOSE m \in DuplicateMsgs : Messages[m].analysis_id = a

\* C22: however the steps of handlers working on duplicates of a message
\* interleave, the one record of its analysis_id holds the message's content
\* with the snapshot of the existing documents, and once no handler is in
\* flight every existing referenced document is analyzed with that id.
C22_DuplicatesConverge ==
  \A a \in DOMAIN analyses :
    LET data == Messages[MessageOf(a)] IN
      /\ Owned(analyses[a]) = UpdateOf(data, FindDocs(DocOrder, SeqToSet(data.document_ids)))
      /\ (\A h \in HandlerIds : handlers[h] = Idle) =>
           \A d \in SeqToSet(data.document_ids) \cap DOMAIN documents :
             documents[d].status = "analyzed" /\ documents[d].analysisId = a

\* the second of two overlapping handlers has just upserted its duplicate of
\* mA while the first is still before its status update
C22_Witness ==
  /\ last.op = "upsert" /\ last.user = "mA" /\ last.res = "replayed"
  /\ handlers["h1"].msg = "mA" /\ handlers["h2"].msg = "mA"
  /\ handlers["h1"].pc = "sync" /\ handlers["h2"].pc = "sync"
  /\ "D1" \in DOMAIN documents

\* C23: an upsert for an analysis_id that is stored already leaves every
\* field the consumer writes with the value of the new message and the
\* snapshot resolved for it, and leaves createdAt as it was.
C23_ReingestReplaces ==
  [][\A h \in HandlerIds :
       LET a == Messages[handlers[h].msg].analysis_id IN
         (UpsertStep(h) /\ a \in DOMAIN analyses) =>
            /\ Owned(analyses'[a]) = UpdateOf(Messages[handlers[h].msg], handlers[h].documents)
            /\ analyses'[a].createdAt = analyses[a].createdAt]_vars

\* the record has a non-null value for the metric
HasValue(a, m) ==
  /\ m \in DOMAIN CalculatedMetricsOf(a)
  /\ CalculatedMetricsOf(a)[m].value # <<>> \/ CalculatedMetricsOf(a)[m].current_year # <<>>

\* the value the record has for the metric
ValueIn(a, m) ==
  LET d == CalculatedMetricsOf(a)[m] IN
    IF d.value # <<>> THEN d.value[1] ELSE d.current_year[1]

\* the series of a metric is, in the order of the compared records, one point
\* with the record's value for each record in Has
SeriesIs(m, Has) ==
  LET recs   == last.report.analyses
      series == last.report.metric_trends[m]
      ids    == [i \in 1..Len(series) |-> series[i].analysis_id]
  IN /\ ids = Filter(recs, SeqToSet(recs) \ Has)
     /\ \A i \in 1..Len(series) :
          /\ series[i].value = ValueIn(series[i].analysis_id, m)
          /\ series[i].date = analyses[series[i].analysis_id].createdAt
     /\ \A i, j \in 1..Len(series) : i < j => series[i].date <= series[j].date

\* C24 as stated: the series of a metric has one point for exactly the
\* compared records in which the metric is present with a non-null value, in
\* ascending order of creation time.
C24_SeriesOfNonNull ==
  Reported =>
    \A m \in DOMAIN last.report.metric_trends :
      SeriesIs(m, {a \in SeqToSet(last.report.analyses) : HasValue(a, m)})

\* C24: the series of a metric has one point, with the record's value, for
\* exactly the compared records in which the metric has a non-null value and
\* is not flagged available: false, in ascending order of creation time; no
\* other record contributes a point.
C24_SeriesOfAvailableValues ==
  Reported =>
    \A m \in DOMAIN last.report.metric_trends :
      SeriesIs(m, {a \in SeqToSet(last.report.analyses) :
                     HasValue(a, m) /\ CalculatedMetricsOf(a)[m].available})

\* three records compared: the first with a null current_ratio, the others
\* with values, so that the series has two points
C24_Witness ==
  /\ Reported
  /\ Len(last.report.analyses) = 3
  /\ analyses[last.report.analyses[1]].consolidatedData = "SNull"
  /\ Len(last.report.metric_trends["current_ratio"]) = 2
  /\ "debt_ratio" \in DOMAIN last.report.metric_trends

\* C25: the trend label of a report is improving iff more metrics are listed
\* as improving than as declining, declining iff more are listed as declining,
\* and stable when the two lists have the same length.
C25_TrendByMajority ==
  Reported =>
    LET up   == Cardinality(Listed(last.report.improving_metrics))
        down == Cardinality(Listed(last.report.declining_metrics))
    IN /\ last.report.summary.trend = "improving" <=> up > down
       /\ last.report.summary.trend = "declining" <=> down > up
       /\ last.report.summary.trend = "stable" <=> up = down
       /\ last.report.summary.improving = up /\ last.report.summary.declining = down

\* one metric improving and one declining: a tie that is not empty
C25_Witness ==
  /\ Reported
  /\ Listed(last.report.improving_metrics) = {"current_ratio"}
  /\ Listed(last.report.declining_metrics) = {"debt_ratio"}
  /\ last.report.summary.trend = "stable"

\* the records the request asks for: completed records of the company that
\* pass the id list and the date range
Qualifying(q) ==
  {a \in DOMAIN analyses :
     /\ analyses[a].company = q.companyId /\ analyses[a].status = "completed"
     /\ (q.analysisIds # {} => a \in q.analysisIds)
     /\ (q.startDate # NoDate => analyses[a].createdAt >= q.startDate)
     /\ (q.endDate # NoDate => analyses[a].createdAt <= q.endDate)}

\* C26: a comparison with at least 2 qualifying records is answered with a
\* report, whatever the calculated_metrics of the records are (absent, null
\* values, a string).
C26_AlwaysAReport ==
  [][(CompareStep /\ Cardinality(Qualifying(last'.query)) >= 2) =>
        (last'.res = "200" /\ "report" \in DOMAIN last')]_vars

\* C28: every record in a report for company o is a completed record of o;
\* records of other companies and records that are not completed are left
\* out whether or not the id list or the date range matches them.
C28_ReportOfOwnCompleted ==
  Reported =>
    /\ \A a \in SeqToSet(last.report.analyses) :
         analyses[a].company = last.query.companyId /\ analyses[a].status = "completed"
    /\ \A m \in DOMAIN last.report.metric_trends :
         \A i \in 1..Len(last.report.metric_trends[m]) :
           analyses[last.report.metric_trends[m][i].analysis_id].company = last.query.companyId
    /\ \A i \in 1..Len(last.report.health_progression) :
         analyses[last.report.health_progression[i].analysis_id].company = last.query.companyId
    /\ last.cids = {last.query.companyId}

\* the id list names a record of c2 (or one still processing) beside two
\* completed records of c1, and the report for c1 is built from the two
C28_Witness ==
  /\ Reported
  /\ last.query.companyId = "c1" /\ last.query.analysisIds = {"A1", "A2", "U1"}
  /\ analyses["U1"].company = "c2"
  /\ SeqToSet(last.report.analyses) = {"A1", "A2"}

\* a step of the handling of a message
ConsumerStep == handlers' # handlers \/ (last'.op \in ConsumerOps /\ last' # last)

\* C27: no step of the handling of a message, accepted, dropped or failed,
\* changes an account or a company.
C27_ConsumerLeavesAccounts ==
  [][ConsumerStep => (users' = users /\ companies' = companies)]_vars

\* a message was dropped after A1 had been stored, in a database whose
\* companies the routes have changed meanwhile
C27_Witness ==
  /\ last.op = "receive" /\ last.res = "dropped"
  /\ "A1" \in DOMAIN analyses
  /\ "D1" \in DOMAIN documents /\ documents["D1"].status = "analyzed"
  /\ companies # SeedCompanies

\* C29: after removeCompanyAdmin(u, o) for an account u that is neither a
\* SUPER_ADMIN nor o's representative, isCompanyAdmin denies u on o.
C29_RemovedAdminIsDenied ==
  (last.op = "removeCompanyAdmin" /\ last.res = "200") =>
    \A o \in last.cids :
      (users[last.user].role # "SUPER_ADMIN" /\ companies[o].representative # last.user) =>
        isCompanyAdmin(last.user, o) # "next"

\* C30: in every state the invitation list of a company holds at most one
\* record for a CA.
C30_OneInvitationPerCA ==
  \A c \in DOMAIN companies, p \in UserIds :
    Cardinality({i \in 1..Len(companies[c].invitedCAs) : companies[c].invitedCAs[i].ca = p}) <= 1
====
